---- MODULE Spec2Model ----
(***************************************************************************)
(* A model of validino/base.py: the Invalid error type and its unpacking,  *)
(* the Schema validator, and the either/compose/check/excursion            *)
(* combinators.                                                            *)
(*                                                                         *)
(* Python values are encoded as strings: the raw inputs "1", "2", "x",     *)
(* the integers int("1"), int("2") as "int1", "int2", the results of a     *)
(* translate() lookup as "one", "two", and None as NoneVal.  A singular    *)
(* argument or result is carried as a one-element sequence, a plural one   *)
(* as the tuple itself.                                                    *)
(***************************************************************************)
EXTENDS Integers, Sequences, FiniteSets, TLC

\* ------------------------------------------------------------------ bounds

\* The largest number of keys a Schema's subvalidator dictionary declares.
MaxKeys == 3

\* ------------------------------------------------------------------ values

NoneVal == "<None>"

\* The values a caller's input mapping may hold.
RawValues == {"1", "2", "x"}

\* Python truth of a message: None and '' are false.
Truthy(m) == m # NoneVal /\ m # ""

\* Field names, in the order Python compares them as strings.
FieldOrder == <<"a", "b", "x", "y", "z">>

FieldRank(f) == CHOOSE i \in 1..Len(FieldOrder) : FieldOrder[i] = f

\* ------------------------------------------------------------------ keys
\* A dictionary key: None, a field name, or a tuple of field names.

NoneKey == [kind |-> "none", names |-> <<>>]

Name(f) == [kind |-> "name", names |-> <<f>>]

Plural(fs) == [kind |-> "tuple", names |-> fs]

IsPlural(k) == k.kind = "tuple"

KindRank(k) == CASE k.kind = "none" -> 0 [] k.kind = "name" -> 1 [] OTHER -> 2

RECURSIVE SeqLess(_, _)
\* Lexicographic comparison of two tuples of field names.
SeqLess(s, t) ==
    IF s = <<>> THEN t # <<>>
    ELSE IF t = <<>> THEN FALSE
    ELSE IF Head(s) # Head(t) THEN FieldRank(Head(s)) < FieldRank(Head(t))
    ELSE SeqLess(Tail(s), Tail(t))

\* Python 2's ordering of dictionary keys: None, then strings, then tuples
\* (objects of different types compare by type name, "str" < "tuple").
KeyLess(k1, k2) ==
    IF KindRank(k1) # KindRank(k2) THEN KindRank(k1) < KindRank(k2)
    ELSE SeqLess(k1.names, k2.names)

RECURSIVE Sorted(_)
\* sorted(keys): the keys as a sequence in ascending order.
Sorted(S) ==
    IF S = {} THEN <<>>
    ELSE LET m == CHOOSE k \in S : \A o \in S \ {k} : KeyLess(k, o)
         IN  <<m>> \o Sorted(S \ {m})

Reverse(s) == [i \in 1..Len(s) |-> s[Len(s) + 1 - i]]

\* The order in which a dictionary's items are visited.  Python 2 leaves it
\* unspecified; ord chooses between two orders.
IterOrder(S, ord) == IF ord = "asc" THEN Sorted(S) ELSE Reverse(Sorted(S))

\* ------------------------------------------------------------ dictionaries

EmptyDict == [k \in {} |-> <<>>]

DictGet(d, k, default) == IF k \in DOMAIN d THEN d[k] ELSE default

DictSet(d, k, v) == [x \in DOMAIN d \cup {k} |-> IF x = k THEN v ELSE d[x]]

\* d.update(u)
DictUpdate(d, u) ==
    [x \in DOMAIN d \cup DOMAIN u |-> IF x \in DOMAIN u THEN u[x] ELSE d[x]]

\* dict(zip(ks, vs)): a later pair wins over an earlier one with the same key.
ZipDict(ks, vs) ==
    LET n == IF Len(ks) < Len(vs) THEN Len(ks) ELSE Len(vs)
        last(f) == CHOOSE i \in 1..n : ks[i] = f /\ \A j \in (i + 1)..n : ks[j] # f
    IN  [f \in {ks[i] : i \in 1..n} |-> vs[last(f)]]

\* ------------------------------------------------------------------ errors
\* An entry of an error list is a record [cls, message, errors, field]:
\*   cls = "str"       a plain message, held in message;
\*   cls = "Invalid"   an Invalid with its message and errors;
\*   cls = "Exception" another exception, args[0] held in message.
\* field is the exception's `field` attribute, NoneVal when it has none.

Message(m) == [cls |-> "str", message |-> m, errors |-> EmptyDict, field |-> NoneVal]

\* The argument of a d[k].append(v) / d[k].extend(v): one item or a list.
One(v) == [islist |-> FALSE, items |-> <<v>>]

List(vs) == [islist |-> TRUE, items |-> vs]

\* An argument of Invalid(...): a dictionary or anything else.
DictArg(d) == [isdict |-> TRUE, msg |-> NoneVal, d |-> d]

MsgArg(m) == [isdict |-> FALSE, msg |-> m, d |-> EmptyDict]

\* Invalid._join_dicts(res, d): per key, append a single value or extend by
\* a list; nothing is compared with what the list already holds.
_join_dicts(res, d) ==
    [k \in DOMAIN res \cup DOMAIN d |->
        IF k \in DOMAIN d THEN DictGet(res, k, <<>>) \o d[k].items ELSE res[k]]

\* Invalid._normalize_dict(kw): every value becomes a list.
_normalize_dict(kw) == [k \in DOMAIN kw |-> kw[k].items]

RECURSIVE JoinArgs(_, _)
\* The loop of Invalid.__init__ over args: d after the dictionaries of args
\* have been joined into it.
JoinArgs(d, args) ==
    IF args = <<>> THEN d
    ELSE JoinArgs(IF Head(args).isdict THEN _join_dicts(d, Head(args).d) ELSE d,
                  Tail(args))

\* The list p of Invalid.__init__: the arguments that are not dictionaries.
PlainArgs(args) == SelectSeq(args, LAMBDA a : ~a.isdict)

\* Invalid(*args, **kw)
Invalid(args, kw) ==
    LET p == PlainArgs(args)
    IN  [cls     |-> "Invalid",
         message |-> IF p # <<>> THEN p[1].msg ELSE NoneVal,
         errors  |-> DictUpdate(JoinArgs(EmptyDict, args), _normalize_dict(kw)),
         field   |-> NoneVal]

\* _msg(msg, key, default) for msg None or a literal string.
_msg(msg, key, default) == IF msg = NoneVal THEN default ELSE msg

\* Invalid._safe_append(adict, key, thing) for a thing that is no list.
_safe_append(adict, key, thing) ==
    DictSet(adict, key, DictGet(adict, key, <<>>) \o <<thing>>)

\* The value unpack_errors returns: a bare message, or a dictionary.
Bare(m) == [isdict |-> FALSE, msg |-> m, d |-> EmptyDict]

Mapping(d) == [isdict |-> TRUE, msg |-> NoneVal, d |-> d]

\* A nested error's fields kept under the parent's field: its messages are
\* appended under name.
MergeUnderName(result, name, flat) ==
    DictSet(result, name,
            DictGet(result, name, <<>>) \o
                [i \in 1..Len(Sorted(DOMAIN flat)) |-> flat[Sorted(DOMAIN flat)[i]]])

\* unpack_errors, lines 177-178: the unpacked dictionary of a nested error
\* is joined into the result, its keys beside the parent's.
MergeNested(result, name, flat) ==
    _join_dicts(result, [k \in DOMAIN flat |-> One(flat[k])])

\* _add_error_message without its `if msg not in d[k]`: the message is
\* appended whether or not the list holds it.
_add_error_message_always(d, k, msg) ==
    DictSet(d, k, Append(DictGet(d, k, <<>>), msg))

\* _add_error_message(d, k, msg)
_add_error_message(d, k, msg) ==
    LET l == DictGet(d, k, <<>>)
    IN  DictSet(d, k, IF \E i \in 1..Len(l) : l[i] = msg THEN l ELSE Append(l, msg))

RECURSIVE unpack_errors(_, _, _, _)
RECURSIVE UnpackEntries(_, _, _, _)
RECURSIVE UnpackItems(_, _, _, _)
RECURSIVE UnpackItemsSetDefault(_, _, _, _)

\* The inner loop of unpack_errors: `for m in msglist`.
UnpackEntries(result, name, msglist, ord) ==
    IF msglist = <<>> THEN result
    ELSE LET m == Head(msglist)
             unpacked == unpack_errors(m, FALSE, FALSE, ord)
             next ==
                 IF m.cls = "Exception" THEN _safe_append(result, name, m.message)
                 ELSE IF m.cls = "Invalid" THEN
                     IF unpacked.isdict
                     THEN MergeNested(result, name, unpacked.d)
                     ELSE IF Truthy(unpacked.msg)
                          THEN _safe_append(result, name, unpacked.msg)
                          ELSE result
                 ELSE _safe_append(result, name, m.message)
         IN  UnpackEntries(next, name, Tail(msglist), ord)

\* The outer loop with a result.setdefault(name, []) ahead of the inner one:
\* every field of the error gets a list, also one that has nothing to report.
UnpackItemsSetDefault(result, errors, names, ord) ==
    IF names = <<>> THEN result
    ELSE UnpackItemsSetDefault(
             UnpackEntries(DictSet(result, Head(names), DictGet(result, Head(names), <<>>)),
                           Head(names), errors[Head(names)], ord),
             errors, Tail(names), ord)

\* The outer loop of unpack_errors: `for name, msglist in self.errors.iteritems()`.
UnpackItems(result, errors, names, ord) ==
    IF names = <<>> THEN result
    ELSE UnpackItems(UnpackEntries(result, Head(names), errors[Head(names)], ord),
                     errors, Tail(names), ord)

\* Invalid.unpack_errors(force_dict, list_of_errors)
unpack_errors(e, force_dict, list_of_errors, ord) ==
    IF ~(DOMAIN e.errors # {} \/ force_dict) THEN Bare(e.message)
    ELSE LET seed == IF Truthy(e.message)
                     THEN DictSet(EmptyDict, NoneKey, <<e.message>>)
                     ELSE EmptyDict
             result == UnpackItems(seed, e.errors,
                                   IterOrder(DOMAIN e.errors, ord), ord)
         IN  IF ~list_of_errors
             THEN Mapping([k \in {x \in DOMAIN result : result[x] # <<>>} |->
                              result[k][1]])
             ELSE Mapping(result)

\* -------------------------------------------------------------- validators
\* A validator is a record [fn, msg, field, arg]; Apply gives the outcome of
\* calling it: Ok(result) or Fail(exception).

NoExc == Message(NoneVal)

Ok(val) == [ok |-> TRUE, val |-> val, exc |-> NoExc]

Fail(e) == [ok |-> FALSE, val |-> <<>>, exc |-> e]

V(fn, msg, field, arg) == [fn |-> fn, msg |-> msg, field |-> field, arg |-> arg]

\* int(value) where it is defined.
IntOf == ("1" :> "int1") @@ ("2" :> "int2") @@ ("int1" :> "int1") @@ ("int2" :> "int2")

\* integer(msg)(value): int(value), or Invalid on a TypeError or ValueError
\* (a tuple, None, a string that is no number).
integer(msg, vdata, plural) ==
    IF ~plural /\ vdata[1] \in DOMAIN IntOf
    THEN Ok(<<IntOf[vdata[1]]>>)
    ELSE Fail(Invalid(<<MsgArg(_msg(msg, "integer", "not an integer"))>>, EmptyDict))

\* default(defaultValue)(value)
default(defaultValue, vdata, plural) ==
    IF ~plural /\ vdata[1] = NoneVal THEN Ok(<<defaultValue>>) ELSE Ok(vdata)

\* The mapping given to translate(): pairs of numbers to pairs of words.
Words == ("1" :> "one") @@ ("2" :> "two") @@ ("int1" :> "one") @@ ("int2" :> "two")

TransMap == [p \in (DOMAIN Words) \X (DOMAIN Words) |-> <<Words[p[1]], Words[p[2]]>>]

\* translate(mapping, msg)(value): mapping[value], or Invalid on a KeyError.
translate(mapping, msg, value) ==
    IF value \in DOMAIN mapping
    THEN Ok(mapping[value])
    ELSE Fail(Invalid(<<MsgArg(_msg(msg, "belongs", "invalid choice"))>>, EmptyDict))

\* fields_equal that drops its field argument.
fields_equal_unnamed(msg, field, values) ==
    IF Cardinality({values[i] : i \in 1..Len(values)}) # 1
    THEN Fail(Invalid(<<MsgArg(_msg(msg, "fields_equal", "fields not equal"))>>, EmptyDict))
    ELSE Ok(values)

\* fields_equal(msg, field)(values), for a tuple of values.
fields_equal(msg, field, values) ==
    IF Cardinality({values[i] : i \in 1..Len(values)}) # 1
    THEN LET m == _msg(msg, "fields_equal", "fields not equal")
         IN  IF field = NoneVal
             THEN Fail(Invalid(<<MsgArg(m)>>, EmptyDict))
             ELSE Fail(Invalid(<<DictArg(DictSet(EmptyDict, Name(field), One(Message(m))))>>,
                               EmptyDict))
    ELSE Ok(values)

\* A validator of the caller's own that always fails, with an Invalid whose
\* `field` attribute it has set.
rejects(field) ==
    Fail([cls |-> "Invalid", message |-> "rejected", errors |-> EmptyDict,
          field |-> field])

\* v(vdata)
Apply(v, vdata, plural) ==
    CASE v.fn = "integer"      -> integer(v.msg, vdata, plural)
      [] v.fn = "default"      -> default(v.arg, vdata, plural)
      [] v.fn = "translate"    -> translate(TransMap, v.msg, vdata)
      [] v.fn = "fields_equal" -> fields_equal(v.msg, v.field, vdata)
      [] OTHER                 -> rejects(v.field)

RECURSIVE compose(_, _, _)
\* compose(*validators)(value): each validator gets the result of the one
\* before it; the first exception ends the loop.
compose(vs, vdata, plural) ==
    IF vs = <<>> THEN Ok(vdata)
    ELSE LET r == Apply(Head(vs), vdata, plural)
         IN  IF r.ok THEN compose(Tail(vs), r.val, plural) ELSE r

\* ------------------------------------------------------------------ Schema

VARIABLES
    subvalidators,  \* Schema.subvalidators: key -> sequence of validators
    allow_missing,  \* Schema.allow_missing
    allow_extra,    \* Schema.allow_extra
    filter_extra,   \* Schema.filter_extra
    input,          \* the caller's mapping as it was when the call began
    heap,           \* the dictionaries: "data" (the caller's) and "fresh" ({})
    res,            \* __call__'s res: the dictionary it names
    exceptions,     \* __call__'s exceptions
    todo,           \* what is left of sorted(self.subvalidators)
    calls,          \* every subvalidator invocation so far, in order
    pc,             \* where __call__ is
    outcome         \* what __call__ returned or raised

schemaVars == <<subvalidators, allow_missing, allow_extra, filter_extra, input,
                heap, res, exceptions, todo, calls, pc, outcome>>

\* The longest list of validators a combinator is built with.
MaxValidators == 3

\* The largest content of an object.
MaxContent == 2

VARIABLES
    combinator,      \* which of either, compose, check, excursion was built
    validators,      \* the validators it was built with
    original,               \* the object the combinator is called with
    x0,              \* the content of original when the call began
    objects,         \* the content of every object
    value,           \* f's local `value`
    inner,           \* the local `value` of the compose that excursion calls
    idx,             \* the position of the `for v in validators` loop
    last_exception,  \* either's local last_exception
    invoked,         \* every validator invocation so far, in order
    cpc,             \* where f is
    result           \* what f returned or raised

combVars == <<combinator, validators, original, x0, objects, value, inner, idx,
              last_exception, invoked, cpc, result>>

\* The deepest nesting of errors within errors.
MaxDepth == 1

\* The most add_error_message calls made on one error.
MaxAdds == 1

\* The most positional arguments given to Invalid().
MaxArgs == 2

VARIABLES
    err,       \* the Invalid at hand
    depth,     \* how deep errors are nested in it
    adds,      \* the add_error_message calls made on it
    epc,       \* "built", or "unpacked" once unpack_errors has been called
    how,       \* the arguments of that unpack_errors call
    unpacked   \* what it returned

errVars == <<err, depth, adds, epc, how, unpacked>>

SchemaFields == {"a", "b"}

DataFields == {"a", "b", "z"}

SingularKeys == {Name(f) : f \in SchemaFields}

PluralKeys == {Plural(<<"a", "b">>), Plural(<<"b", "a">>)}

\* What a schema may declare under a singular key ...
SingularValidators(f) ==
    { <<V("integer", NoneVal, NoneVal, NoneVal)>>,
      <<V("integer", "", NoneVal, NoneVal)>>,
      <<V("default", NoneVal, NoneVal, "1"), V("integer", NoneVal, NoneVal, NoneVal)>>,
      <<V("rejects", NoneVal, CHOOSE g \in SchemaFields : g # f, NoneVal)>> }

\* ... and under a plural one.
PluralValidators ==
    { <<V("fields_equal", NoneVal, NoneVal, NoneVal)>>,
      <<V("fields_equal", NoneVal, "a", NoneVal)>>,
      <<V("translate", NoneVal, NoneVal, NoneVal)>> }

AllValidators == PluralValidators \cup UNION {SingularValidators(f) : f \in SchemaFields}

Schemas ==
    UNION { { s \in [K -> AllValidators] :
                \A k \in K : s[k] \in (IF IsPlural(k) THEN PluralValidators
                                       ELSE SingularValidators(k.names[1])) } :
            K \in {K \in SUBSET (SingularKeys \cup PluralKeys) : Cardinality(K) <= MaxKeys} }

Inputs ==
    { d \in UNION {[K -> RawValues] : K \in SUBSET DataFields} :
        "z" \in DOMAIN d => d["z"] = "1" }

NoOutcome == [kind |-> "none", ref |-> NoneVal, exc |-> NoExc]

Returned(ref) == [kind |-> "returned", ref |-> ref, exc |-> NoExc]

Raised(e) == [kind |-> "raised", ref |-> NoneVal, exc |-> e]

InitSchema ==
    /\ subvalidators \in Schemas
    /\ allow_missing \in BOOLEAN
    /\ allow_extra \in BOOLEAN
    /\ filter_extra \in BOOLEAN
    /\ input \in Inputs
    /\ heap = [o \in {"data", "fresh"} |-> IF o = "data" THEN input ELSE EmptyDict]
    /\ res = NoneVal
    /\ exceptions = EmptyDict
    /\ todo = <<>>
    /\ calls = <<>>
    /\ pc = "call"
    /\ outcome = NoOutcome

\* _keys without the flattening of tuples: only the singular keys.
_keysSingular(subs) == {k.names[1] : k \in {k \in DOMAIN subs : ~IsPlural(k)}}

\* Schema._keys(): the field names of the schema's keys, tuples flattened.
_keys(subs) == UNION { {k.names[i] : i \in 1..Len(k.names)} : k \in DOMAIN subs }

\* Which dictionary res names.
ResultDict(filter) == IF ~filter THEN "data" ELSE "fresh"

\* The extra/missing checks: the exception they raise, NoExc when they pass.
CheckKeys(subs, missingOk, extraOk, data) ==
    LET inputkeys == DOMAIN data
        schemakeys == _keys(subs)
    IN  IF ~(extraOk /\ missingOk) /\ ~extraOk /\ inputkeys \ schemakeys # {}
        THEN Invalid(<<MsgArg(_msg(NoneVal, "schema.extra", "extra keys in input"))>>,
                     EmptyDict)
        ELSE IF ~(extraOk /\ missingOk) /\ ~missingOk /\ schemakeys \ inputkeys # {}
        THEN Invalid(<<MsgArg(_msg(NoneVal, "schema.missing", "missing keys in input"))>>,
                     EmptyDict)
        ELSE NoExc

\* Gather from the input alone: data.get(x).
GatherRaw(resd, data, x) == DictGet(data, x, NoneVal)

\* res.get(x, data.get(x))
Gather(resd, data, x) == DictGet(resd, x, DictGet(data, x, NoneVal))

\* vdata for key k
VData(k, resd, data) == [i \in 1..Len(k.names) |-> Gather(resd, data, k.names[i])]

\* getattr(e, 'field', k) or k
BucketName(e, k) == IF e.field # NoneVal /\ e.field # "" THEN Name(e.field) ELSE k

\* The order in which the subvalidators run.
RunOrder(subs) == Sorted(DOMAIN subs)

\* res after a successful subvalidator: res.update(dict(zip(k, tmp))) or
\* res[k] = tmp.
Store(resd, k, tmp) ==
    IF IsPlural(k) THEN DictUpdate(resd, ZipDict(k.names, tmp))
    ELSE DictSet(resd, k.names[1], tmp[1])

\* Advance, failing fast: the first failure ends the loop.
AdvanceFailFast(td, r) == IF r.ok THEN Tail(td) ELSE <<>>

\* The keys still to visit after the subvalidator of Head(td) gave r: the
\* except clause swallows the exception and the loop goes on.
Advance(td, r) == Tail(td)

\* The error raised after the loop.
Aggregate(excs) ==
    Invalid(<<MsgArg(_msg(NoneVal, "schema.error",
                          "Problems were found in the submitted data.")),
              DictArg([n \in DOMAIN excs |-> List(excs[n])])>>,
            EmptyDict)

\* __call__, lines 243-247: res and exceptions.
SchemaEnter ==
    /\ pc = "call"
    /\ res' = ResultDict(filter_extra)
    /\ exceptions' = EmptyDict
    /\ pc' = "check"
    /\ UNCHANGED <<subvalidators, allow_missing, allow_extra, filter_extra, input,
                   heap, todo, calls, outcome>>
    /\ UNCHANGED <<combVars, errVars>>

\* __call__, lines 248-260: the extra and missing key checks.
SchemaCheck ==
    /\ pc = "check"
    /\ LET e == CheckKeys(subvalidators, allow_missing, allow_extra, heap["data"])
       IN  IF e # NoExc
           THEN /\ pc' = "raised"
                /\ outcome' = Raised(e)
                /\ todo' = todo
           ELSE /\ pc' = "loop"
                /\ outcome' = outcome
                /\ todo' = RunOrder(subvalidators)
    /\ UNCHANGED <<subvalidators, allow_missing, allow_extra, filter_extra, input,
                   heap, res, exceptions, calls>>
    /\ UNCHANGED <<combVars, errVars>>

\* __call__, lines 262-284: one turn of the loop over the sorted keys.
SchemaValidate ==
    /\ pc = "loop"
    /\ todo # <<>>
    /\ LET k == Head(todo)
           vdata == VData(k, heap[res], heap["data"])
           r == compose(subvalidators[k], vdata, IsPlural(k))
           name == BucketName(r.exc, k)
       IN  /\ calls' = Append(calls, [key |-> k, arg |-> vdata, ok |-> r.ok,
                                      val |-> r.val, exc |-> r.exc])
           /\ IF r.ok
              THEN /\ heap' = [heap EXCEPT ![res] = Store(heap[res], k, r.val)]
                   /\ exceptions' = exceptions
              ELSE /\ heap' = heap
                   /\ exceptions' = DictSet(exceptions, name,
                                            Append(DictGet(exceptions, name, <<>>), r.exc))
           /\ todo' = Advance(todo, r)
    /\ UNCHANGED <<subvalidators, allow_missing, allow_extra, filter_extra, input,
                   res, pc, outcome>>
    /\ UNCHANGED <<combVars, errVars>>

\* __call__, lines 286-291: raise the aggregated error or return res.
SchemaFinish ==
    /\ pc = "loop"
    /\ todo = <<>>
    /\ IF DOMAIN exceptions # {}
       THEN /\ pc' = "raised"
            /\ outcome' = Raised(Aggregate(exceptions))
       ELSE /\ pc' = "returned"
            /\ outcome' = Returned(res)
    /\ UNCHANGED <<subvalidators, allow_missing, allow_extra, filter_extra, input,
                   heap, res, exceptions, todo, calls>>
    /\ UNCHANGED <<combVars, errVars>>

NextSchema == SchemaEnter \/ SchemaCheck \/ SchemaValidate \/ SchemaFinish

\* ------------------------------------------------------------- combinators
\* either, compose, check and excursion, called with a mutable object.
\* An object is a number in `objects`, the sequence of the objects' contents.
\* A validator looks the content of the object it is given up in a table, as
\* translate() does, and fails when the table lacks it; it gives the result
\* either as a new object or, as a Schema with filter_extra false does, by
\* writing it into the object it was given, which it then returns.

Contents == 0..MaxContent

\* The tables: one step up (MaxContent is not in it), one step down (0 is not).
Tables == {"up", "down"}

Table(t) ==
    IF t = "up" THEN [c \in 0..(MaxContent - 1) |-> c + 1]
    ELSE [c \in 1..MaxContent |-> c - 1]

CombValidator(t, inplace, msg) == [table |-> t, inplace |-> inplace, msg |-> msg]

\* The lists of validators: the i-th carries the message ToString(i).
ValidatorLists ==
    UNION { { [i \in 1..n |-> CombValidator(ts[i], ps[i], ToString(i))] :
                ts \in [1..n -> Tables], ps \in [1..n -> BOOLEAN] } :
            n \in 0..MaxValidators }

\* A local variable that has not been assigned.
Unbound == [cls |-> "unbound", message |-> NoneVal, errors |-> EmptyDict, field |-> NoneVal]

UnboundLocalError ==
    [cls |-> "UnboundLocalError",
     message |-> "local variable 'last_exception' referenced before assignment",
     errors |-> EmptyDict, field |-> NoneVal]

InitCombinators ==
    /\ combinator \in {"either", "compose", "check", "excursion"}
    /\ validators \in ValidatorLists
    /\ x0 \in Contents
    /\ objects = <<x0>>
    /\ original = 1
    /\ value = original
    /\ inner = original
    /\ idx = 1
    /\ last_exception = Unbound
    /\ invoked = <<>>
    /\ cpc = "run"
    /\ result = NoOutcome

\* v(arg): the outcome, with the objects as the call leaves them.
Call(v, arg, objs) ==
    LET r == translate(Table(v.table), v.msg, objs[arg])
    IN  IF ~r.ok THEN [ok |-> FALSE, val |-> arg, exc |-> r.exc, objs |-> objs]
        ELSE IF v.inplace
        THEN [ok |-> TRUE, val |-> arg, exc |-> NoExc,
              objs |-> [objs EXCEPT ![arg] = r.val]]
        ELSE [ok |-> TRUE, val |-> Len(objs) + 1, exc |-> NoExc,
              objs |-> Append(objs, r.val)]

Log(arg, r) ==
    Append(invoked, [index |-> idx, arg |-> arg, content |-> objects[arg],
                     ok |-> r.ok, val |-> r.val, exc |-> r.exc])

\* either keeping the first exception it caught instead of the last.
CaughtFirst(last, e) == IF last = Unbound THEN e ELSE last

\* either, line 421: last_exception = e.
Caught(last, e) == e

\* compose without the assignment: v(value) alone.
Unthreaded(val, r) == val

\* compose, line 434: value = v(value).
Threaded(val, r) == r.val

\* excursion returning what its compose returned.
ExcursionResultInner(val, composed) == composed

\* excursion, lines 459-460: compose(*validators)(value), then return value.
ExcursionResult(val, composed) == val

\* either, lines 417-423: one turn of the loop.
EitherTry ==
    /\ cpc = "run" /\ combinator = "either" /\ idx <= Len(validators)
    /\ LET r == Call(validators[idx], value, objects)
       IN  /\ invoked' = Log(value, r)
           /\ objects' = r.objs
           /\ IF r.ok
              THEN /\ value' = r.val
                   /\ result' = Returned(r.val)
                   /\ cpc' = "done"
                   /\ UNCHANGED <<idx, last_exception>>
              ELSE /\ last_exception' = Caught(last_exception, r.exc)
                   /\ idx' = idx + 1
                   /\ UNCHANGED <<value, result, cpc>>
    /\ UNCHANGED <<combinator, validators, original, x0, inner>>
    /\ UNCHANGED <<schemaVars, errVars>>

\* either, line 424: raise last_exception.
EitherRaise ==
    /\ cpc = "run" /\ combinator = "either" /\ idx > Len(validators)
    /\ result' = Raised(IF last_exception = Unbound THEN UnboundLocalError
                        ELSE last_exception)
    /\ cpc' = "done"
    /\ UNCHANGED <<combinator, validators, original, x0, objects, value, inner, idx,
                   last_exception, invoked>>
    /\ UNCHANGED <<schemaVars, errVars>>

\* compose, lines 433-434: one turn of the loop.
ComposeStep ==
    /\ cpc = "run" /\ combinator = "compose" /\ idx <= Len(validators)
    /\ LET r == Call(validators[idx], value, objects)
       IN  /\ invoked' = Log(value, r)
           /\ objects' = r.objs
           /\ IF r.ok
              THEN /\ value' = Threaded(value, r)
                   /\ idx' = idx + 1
                   /\ UNCHANGED <<result, cpc>>
              ELSE /\ result' = Raised(r.exc)
                   /\ cpc' = "done"
                   /\ UNCHANGED <<value, idx>>
    /\ UNCHANGED <<combinator, validators, original, x0, inner, last_exception>>
    /\ UNCHANGED <<schemaVars, errVars>>

\* compose, line 435: return value.
ComposeReturn ==
    /\ cpc = "run" /\ combinator = "compose" /\ idx > Len(validators)
    /\ result' = Returned(value)
    /\ cpc' = "done"
    /\ UNCHANGED <<combinator, validators, original, x0, objects, value, inner, idx,
                   last_exception, invoked>>
    /\ UNCHANGED <<schemaVars, errVars>>

\* check, lines 446-447: one turn of the loop.
CheckStep ==
    /\ cpc = "run" /\ combinator = "check" /\ idx <= Len(validators)
    /\ LET r == Call(validators[idx], value, objects)
       IN  /\ invoked' = Log(value, r)
           /\ objects' = r.objs
           /\ IF r.ok
              THEN /\ idx' = idx + 1
                   /\ UNCHANGED <<result, cpc>>
              ELSE /\ result' = Raised(r.exc)
                   /\ cpc' = "done"
                   /\ UNCHANGED idx
    /\ UNCHANGED <<combinator, validators, original, x0, value, inner, last_exception>>
    /\ UNCHANGED <<schemaVars, errVars>>

\* check, line 448: return value.
CheckReturn ==
    /\ cpc = "run" /\ combinator = "check" /\ idx > Len(validators)
    /\ result' = Returned(value)
    /\ cpc' = "done"
    /\ UNCHANGED <<combinator, validators, original, x0, objects, value, inner, idx,
                   last_exception, invoked>>
    /\ UNCHANGED <<schemaVars, errVars>>

\* excursion, line 459: one turn of the loop of the compose it calls.
ExcursionStep ==
    /\ cpc = "run" /\ combinator = "excursion" /\ idx <= Len(validators)
    /\ LET r == Call(validators[idx], inner, objects)
       IN  /\ invoked' = Log(inner, r)
           /\ objects' = r.objs
           /\ IF r.ok
              THEN /\ inner' = Threaded(inner, r)
                   /\ idx' = idx + 1
                   /\ UNCHANGED <<result, cpc>>
              ELSE /\ result' = Raised(r.exc)
                   /\ cpc' = "done"
                   /\ UNCHANGED <<inner, idx>>
    /\ UNCHANGED <<combinator, validators, original, x0, value, last_exception>>
    /\ UNCHANGED <<schemaVars, errVars>>

\* excursion, line 460: return value.
ExcursionReturn ==
    /\ cpc = "run" /\ combinator = "excursion" /\ idx > Len(validators)
    /\ result' = Returned(ExcursionResult(value, inner))
    /\ cpc' = "done"
    /\ UNCHANGED <<combinator, validators, original, x0, objects, value, inner, idx,
                   last_exception, invoked>>
    /\ UNCHANGED <<schemaVars, errVars>>

NextCombinators ==
    \/ EitherTry \/ EitherRaise
    \/ ComposeStep \/ ComposeReturn
    \/ CheckStep \/ CheckReturn
    \/ ExcursionStep \/ ExcursionReturn

\* ------------------------------------------------------------------ Invalid
\* An Invalid is built, wrapped in further Invalids, given further messages
\* and at last unpacked.

ErrorKeys == {Name("x"), Name("y")}

\* What a dictionary given to Invalid() holds under a key.
ErrorValues ==
    { One(Message("deep")), List(<<Message("bad"), Message("deep")>>),
      List(<<Message("bad"), Message("bad")>>), List(<<>>) }

Contributions ==
    {MsgArg("top"), MsgArg("")}
    \cup {DictArg(DictSet(EmptyDict, k, v)) : k \in ErrorKeys, v \in ErrorValues}

ArgLists == UNION {[1..n -> Contributions] : n \in 0..MaxArgs}

\* The keyword arguments given to Invalid(): none, or x='bad'.
Bindings == {EmptyDict, DictSet(EmptyDict, Name("x"), One(Message("bad")))}

NotUnpacked == [force_dict |-> FALSE, list_of_errors |-> FALSE, ord |-> "none"]

InitInvalid ==
    /\ \E args \in ArgLists : \E kw \in Bindings : err = Invalid(args, kw)
    /\ depth = 0
    /\ adds = 0
    /\ epc = "built"
    /\ how = NotUnpacked
    /\ unpacked = Bare(NoneVal)

\* Invalid({k: err}) or Invalid('top', {k: err}): the error at hand becomes
\* a field error of a new one, as a Schema's failure does in the error of
\* the Schema around it.
Wrap ==
    /\ epc = "built"
    /\ depth < MaxDepth
    /\ \E k \in ErrorKeys : \E top \in BOOLEAN :
           err' = Invalid((IF top THEN <<MsgArg("top")>> ELSE <<>>)
                              \o <<DictArg(DictSet(EmptyDict, k, One(err)))>>,
                          EmptyDict)
    /\ depth' = depth + 1
    /\ UNCHANGED <<adds, epc, how, unpacked>>
    /\ UNCHANGED <<schemaVars, combVars>>

\* Invalid.add_error_message(key, message)
AddErrorMessage ==
    /\ epc = "built"
    /\ adds < MaxAdds
    /\ \E k \in ErrorKeys : \E m \in {"bad"} :
           err' = [err EXCEPT !.errors = _add_error_message(err.errors, k, Message(m))]
    /\ adds' = adds + 1
    /\ UNCHANGED <<depth, epc, how, unpacked>>
    /\ UNCHANGED <<schemaVars, combVars>>

\* Invalid.unpack_errors(force_dict, list_of_errors)
UnpackErrors ==
    /\ epc = "built"
    /\ \E f \in BOOLEAN : \E l \in BOOLEAN : \E ord \in {"asc", "desc"} :
           /\ how' = [force_dict |-> f, list_of_errors |-> l, ord |-> ord]
           /\ unpacked' = unpack_errors(err, f, l, ord)
    /\ epc' = "unpacked"
    /\ UNCHANGED <<err, depth, adds>>
    /\ UNCHANGED <<schemaVars, combVars>>

NextInvalid == Wrap \/ AddErrorMessage \/ UnpackErrors

\* ---------------------------------------------------------- specifications

vars == <<schemaVars, combVars, errVars>>

\* No Schema call is under way.
IdleSchema ==
    /\ subvalidators = EmptyDict
    /\ allow_missing = TRUE
    /\ allow_extra = TRUE
    /\ filter_extra = TRUE
    /\ input = EmptyDict
    /\ heap = [o \in {"data", "fresh"} |-> EmptyDict]
    /\ res = NoneVal
    /\ exceptions = EmptyDict
    /\ todo = <<>>
    /\ calls = <<>>
    /\ pc = "idle"
    /\ outcome = NoOutcome

\* No combinator is being called.
IdleCombinators ==
    /\ combinator = "none"
    /\ validators = <<>>
    /\ x0 = 0
    /\ objects = <<>>
    /\ original = 0
    /\ value = 0
    /\ inner = 0
    /\ idx = 0
    /\ last_exception = Unbound
    /\ invoked = <<>>
    /\ cpc = "idle"
    /\ result = NoOutcome

\* No Invalid is at hand.
IdleInvalid ==
    /\ err = NoExc
    /\ depth = 0
    /\ adds = 0
    /\ epc = "idle"
    /\ how = NotUnpacked
    /\ unpacked = Bare(NoneVal)

\* A call of a Schema.
Init == InitSchema /\ IdleCombinators /\ IdleInvalid

Next == NextSchema

Spec == Init /\ [][Next]_vars

\* A call of a combinator.
InitComb == IdleSchema /\ InitCombinators /\ IdleInvalid

NextComb == NextCombinators

SpecComb == InitComb /\ [][NextComb]_vars

\* The life of an Invalid.
InitUnpack == IdleSchema /\ IdleCombinators /\ InitInvalid

NextUnpack == NextInvalid

SpecUnpack == InitUnpack /\ [][NextUnpack]_vars

\* ---------------------------------------------------------- Schema: claims

Declared == DOMAIN subvalidators

Finished == pc \in {"returned", "raised"}

\* The calls that failed, and the keys they were made for.
FailedCalls == {i \in 1..Len(calls) : ~calls[i].ok}

FailingKeys == {calls[i].key : i \in FailedCalls}

\* The key checks passed: __call__ went past them.
ChecksPassed == pc = "loop" \/ (Finished /\ (calls # <<>> \/ outcome.kind = "returned"))

Orders == {"asc", "desc"}

\* outcome.exc.unpack_errors(), visiting the dictionaries in order ord.
Unpacked(ord) == unpack_errors(outcome.exc, TRUE, FALSE, ord).d

UnpackedLists(ord) == unpack_errors(outcome.exc, TRUE, TRUE, ord).d

EachInvokedOnce ==
    /\ Len(calls) = Cardinality(Declared)
    /\ \A k \in Declared : Cardinality({i \in 1..Len(calls) : calls[i].key = k}) = 1

\* A failure that is a plain message: non-empty, no field errors.
PlainFailure(e) == DOMAIN e.errors = {} /\ Truthy(e.message)

\* The keys an unpacked failure reports under, given its bucket.
RECURSIVE NamedBy(_)
NamedBy(e) ==
    DOMAIN e.errors \cup
    UNION { UNION {NamedBy(e.errors[k][i]) : i \in 1..Len(e.errors[k])} : k \in DOMAIN e.errors }

\* C1 as stated: after the key checks every declared subvalidator is invoked
\* exactly once, and if one fails the call raises one aggregated error whose
\* buckets are exactly the failing schema keys and whose unpacked form has
\* an entry for every failing key and none for a key whose subvalidator
\* succeeded.
C1_AsStated ==
    (Finished /\ ChecksPassed) =>
        /\ EachInvokedOnce
        /\ FailingKeys # {} =>
            /\ outcome.kind = "raised"
            /\ DOMAIN outcome.exc.errors = FailingKeys
            /\ \A ord \in Orders :
                /\ FailingKeys \subseteq DOMAIN Unpacked(ord)
                /\ (Declared \ FailingKeys) \cap DOMAIN Unpacked(ord) = {}

\* C1 (amended): after the key checks every declared subvalidator is invoked
\* exactly once, failures or not; if one fails the call raises one aggregated
\* error.  Each failure sits in the bucket named by its exception's `field`
\* attribute, or by its schema key when it has none, and every bucket holds
\* exactly the failures named so, in the order they happened.  The unpacked
\* form has an entry under the bucket of every failure that is a plain
\* non-empty message; a failure carrying field errors is reported under the
\* fields it names; and no other key but None has an entry, so a key whose
\* subvalidator succeeded has none unless a failing error names it.
C1_Aggregates ==
    (Finished /\ ChecksPassed) =>
        /\ EachInvokedOnce
        /\ (FailingKeys = {}) = (outcome.kind = "returned")
        /\ FailingKeys # {} =>
            /\ outcome.kind = "raised"
            /\ outcome.exc.cls = "Invalid"
            /\ Truthy(outcome.exc.message)
            /\ DOMAIN outcome.exc.errors =
                   {BucketName(calls[i].exc, calls[i].key) : i \in FailedCalls}
            /\ \A n \in DOMAIN outcome.exc.errors :
                   \E at \in [1..Len(outcome.exc.errors[n]) -> FailedCalls] :
                       /\ \A p, q \in DOMAIN at : p < q => at[p] < at[q]
                       /\ {at[p] : p \in DOMAIN at} =
                              {i \in FailedCalls : BucketName(calls[i].exc, calls[i].key) = n}
                       /\ \A p \in DOMAIN at : outcome.exc.errors[n][p] = calls[at[p]].exc
            /\ \A ord \in Orders :
                /\ \A i \in FailedCalls :
                       PlainFailure(calls[i].exc) =>
                           BucketName(calls[i].exc, calls[i].key) \in DOMAIN Unpacked(ord)
                /\ \A i \in FailedCalls :
                       NamedBy(calls[i].exc) \subseteq DOMAIN Unpacked(ord)
                /\ DOMAIN Unpacked(ord) \subseteq
                       {NoneKey}
                       \cup {BucketName(calls[i].exc, calls[i].key) :
                                 i \in {j \in FailedCalls : PlainFailure(calls[j].exc)}}
                       \cup UNION {NamedBy(calls[i].exc) : i \in FailedCalls}

\* C1's case: 'a' fails with a plain message, 'b' succeeds after it, and the
\* unpacked error has an entry for 'a' and none for 'b'.
C1_Witness ==
    /\ pc = "raised"
    /\ Len(calls) = 2
    /\ calls[1].key = Name("a") /\ ~calls[1].ok /\ PlainFailure(calls[1].exc)
    /\ calls[2].key = Name("b") /\ calls[2].ok
    /\ Name("a") \in DOMAIN Unpacked("asc")
    /\ Name("b") \notin DOMAIN Unpacked("asc")

\* The known key set: every field a schema key names, alone or in a tuple.
KnownKeys == {f \in DataFields : \E k \in Declared : \E i \in 1..Len(k.names) : k.names[i] = f}

ExtraKeys == DOMAIN input \ KnownKeys

MissingKeys == KnownKeys \ DOMAIN input

MustReject == (~allow_extra /\ ExtraKeys # {}) \/ (~allow_missing /\ MissingKeys # {})

\* C2: a Schema with allow_extra false called with a key outside the known
\* key set, or with allow_missing false called without a known key (tuple
\* keys flattened), fails with a schema-level error before any subvalidator
\* is invoked and before any key of the input or of a result mapping is
\* written; no other call is stopped by the key checks.
C2_KeyChecksFirst ==
    pc \notin {"call", "check"} =>
        /\ MustReject =>
            /\ pc = "raised"
            /\ outcome.kind = "raised"
            /\ outcome.exc.cls = "Invalid"
            /\ DOMAIN outcome.exc.errors = {}
            /\ outcome.exc.message \in {"extra keys in input", "missing keys in input"}
            /\ (outcome.exc.message = "extra keys in input") = (~allow_extra /\ ExtraKeys # {})
            /\ calls = <<>>
            /\ heap["data"] = input
            /\ heap["fresh"] = EmptyDict
        /\ ~MustReject => ChecksPassed

\* C2's case: the only missing field is named by a tuple key alone, and the
\* call has been rejected with nothing invoked.
C2_Witness ==
    /\ pc = "raised"
    /\ ~allow_missing
    /\ Declared = {Plural(<<"a", "b">>)}
    /\ DOMAIN input = {"a"}
    /\ outcome.exc.message = "missing keys in input"
    /\ calls = <<>>

\* C3 as stated: with filter_extra false the caller's mapping holds after the
\* call exactly what it held before it.
C3_InputUntouched == (Finished /\ ~filter_extra) => heap["data"] = input

\* The value most recently stored for field f by a call before the j-th, or
\* the input's own value (None when it has none).
LatestStored(f, j) ==
    LET writers == {i \in 1..(j - 1) :
                        calls[i].ok /\ \E n \in 1..Len(calls[i].key.names) :
                                           calls[i].key.names[n] = f}
    IN  IF writers = {} THEN DictGet(input, f, NoneVal)
        ELSE LET i == CHOOSE w \in writers : \A o \in writers : o <= w
                 n == CHOOSE m \in 1..Len(calls[i].key.names) :
                          /\ calls[i].key.names[m] = f
                          /\ \A o \in (m + 1)..Len(calls[i].key.names) :
                                 calls[i].key.names[o] # f
             IN  calls[i].val[n]

SingularFirst ==
    \A i, j \in 1..Len(calls) : (i < j) => ~(IsPlural(calls[i].key) /\ ~IsPlural(calls[j].key))

FieldsEqualFailed(F) ==
    {i \in FailedCalls :
        /\ calls[i].key = Plural(<<"a", "b">>)
        /\ subvalidators[calls[i].key] = <<V("fields_equal", NoneVal, F, NoneVal)>>}

\* C5 as stated: the failure of fields_equal under ('a','b') is recorded in
\* the bucket keyed by the tuple when it names no field, and in the bucket
\* keyed by the field when it names one.
C5_AsStated ==
    \A F \in {NoneVal, "a"} : \A i \in FieldsEqualFailed(F) :
        LET name == IF F = NoneVal THEN calls[i].key ELSE Name(F)
        IN  /\ name \in DOMAIN exceptions
            /\ \E p \in 1..Len(exceptions[name]) : exceptions[name][p] = calls[i].exc

\* C5 (amended): the failure of fields_equal under ('a','b') is recorded in
\* the bucket keyed by the tuple whether or not it names a field.  When it
\* names none the error is a plain message and the unpacked form reports it
\* under the tuple; when it names one the error carries the message as a
\* field error of that field, and the unpacked form reports it under the
\* field and has no entry under the tuple.
C5_BucketIsTuple ==
    \A F \in {NoneVal, "a"} : \A i \in FieldsEqualFailed(F) :
        LET P == calls[i].key
        IN  /\ exceptions[P] = <<calls[i].exc>>
            /\ calls[i].exc.field = NoneVal
            /\ F = NoneVal => /\ calls[i].exc.message = "fields not equal"
                              /\ DOMAIN calls[i].exc.errors = {}
            /\ F # NoneVal => /\ calls[i].exc.message = NoneVal
                              /\ calls[i].exc.errors =
                                     DictSet(EmptyDict, Name(F), <<Message("fields not equal")>>)
            /\ pc = "raised" =>
                   \A ord \in Orders :
                       LET U == UnpackedLists(ord)
                       IN  IF F = NoneVal
                           THEN P \in DOMAIN U /\ U[P] = <<"fields not equal">>
                           ELSE /\ P \notin DOMAIN U
                                /\ Name(F) \in DOMAIN U
                                /\ \E p \in 1..Len(U[Name(F)]) :
                                       U[Name(F)][p] = "fields not equal"

\* C5's case: fields_equal(field='a') under ('a','b') has failed on
\* mismatched values and the call has raised.
C5_Witness ==
    /\ pc = "raised"
    /\ FieldsEqualFailed("a") # {}
    /\ \E i \in FieldsEqualFailed("a") : calls[i].arg[1] # calls[i].arg[2]
    /\ Name("a") \in DOMAIN Unpacked("asc")

\* ----------------------------------------------------- combinators: claims

Done(c) == cpc = "done" /\ combinator = c

\* Whether validator v succeeds on content c, and what it makes of it.
Accepts(v, c) == c \in DOMAIN Table(v.table)

\* The error validator i raises.
ErrorOf(i) == Invalid(<<MsgArg(validators[i].msg)>>, EmptyDict)

\* The invocations so far are those of validators 1..m, in order.
InvokedInOrder == \A j \in 1..Len(invoked) : invoked[j].index = j

\* C6 as stated: either() built with no validators fails, on any value, with
\* a validation failure of its own (an Invalid), not with an undefined or
\* absent error reference.
C6_DefinedFailure ==
    (Done("either") /\ validators = <<>>) =>
        /\ result.kind = "raised"
        /\ result.exc.cls = "Invalid"

\* The alternatives of either that accept x.
Accepting == {i \in 1..Len(validators) : Accepts(validators[i], x0)}

\* C7: either(v1..vn), n >= 1, passes the object it was called with, as it
\* was, to every alternative it tries, in order; it returns the result of
\* the first alternative that succeeds and invokes none after it; when all
\* fail it fails with the error of the last, vn.
C7_EitherFirstSuccess ==
    (combinator = "either" /\ Len(validators) >= 1) =>
        /\ InvokedInOrder
        /\ \A j \in 1..Len(invoked) :
               invoked[j].arg = original /\ invoked[j].content = x0
        /\ cpc = "done" =>
            IF Accepting # {}
            THEN LET first == CHOOSE i \in Accepting : \A o \in Accepting : i <= o
                 IN  /\ Len(invoked) = first
                     /\ result.kind = "returned"
                     /\ result.ref = invoked[first].val
                     /\ objects[result.ref] = Table(validators[first].table)[x0]
                     /\ (result.ref = original) = validators[first].inplace
            ELSE /\ Len(invoked) = Len(validators)
                 /\ result.kind = "raised"
                 /\ result.exc = ErrorOf(Len(validators))

\* C7's case: the first alternative failed, the second was given the same
\* object and succeeded, and a third was never invoked.
C7_Witness ==
    /\ Done("either")
    /\ Len(validators) = 3
    /\ Len(invoked) = 2
    /\ ~invoked[1].ok /\ invoked[2].ok
    /\ result.kind = "returned"

\* What compose(vs) makes of content c: the content of its result, or the
\* position of the first validator that fails.
RECURSIVE Pipeline(_, _, _)
Pipeline(vs, i, c) ==
    IF i > Len(vs) THEN [ok |-> TRUE, content |-> c, at |-> 0]
    ELSE IF ~Accepts(vs[i], c) THEN [ok |-> FALSE, content |-> c, at |-> i]
    ELSE Pipeline(vs, i + 1, Table(vs[i].table)[c])

\* C8: compose(f, g)(x) is g(f(x)) when both succeed; when f fails it fails
\* with f's error and g is not invoked; and of compose(v1..vn) every
\* validator gets the result of the one before it and none is invoked after
\* the first that fails, whose error is the one raised.
C8_ComposeThreads ==
    combinator = "compose" =>
        /\ InvokedInOrder
        /\ \A j \in 1..Len(invoked) :
               /\ invoked[j].arg = IF j = 1 THEN original ELSE invoked[j - 1].val
               /\ j < Len(invoked) => invoked[j].ok
        /\ cpc = "done" =>
            LET p == Pipeline(validators, 1, x0)
            IN  IF p.ok
                THEN /\ Len(invoked) = Len(validators)
                     /\ result.kind = "returned"
                     /\ objects[result.ref] = p.content
                     /\ Len(validators) = 2 =>
                            objects[result.ref] =
                                Table(validators[2].table)[Table(validators[1].table)[x0]]
                ELSE /\ Len(invoked) = p.at
                     /\ result.kind = "raised"
                     /\ result.exc = ErrorOf(p.at)

\* C8's case: compose(f, g) where f has failed: g was not invoked and the
\* error is f's.
C8_Witness ==
    /\ Done("compose")
    /\ Len(validators) = 2
    /\ Len(invoked) = 1
    /\ result = Raised(ErrorOf(1))

RECURSIVE Mutated(_)
Mutated(n) ==
    IF n = 0 THEN x0
    ELSE IF invoked[n].arg = original /\ invoked[n].ok /\ validators[n].inplace
    THEN Table(validators[n].table)[Mutated(n - 1)]
    ELSE Mutated(n - 1)

Elements(l) == {l[i] : i \in 1..Len(l)}

\* An error whose field errors are all plain messages.
IsLeaf(e) == \A k \in DOMAIN e.errors : \A i \in 1..Len(e.errors[k]) : e.errors[k][i].cls = "str"

\* The keys under which an error has something to report.
RECURSIVE ReportKeys(_)
ReportKeys(e) ==
    (IF Truthy(e.message) THEN {NoneKey} ELSE {})
    \cup UNION { UNION { LET m == e.errors[k][i]
                         IN  IF m.cls = "Invalid"
                             THEN IF DOMAIN m.errors # {} THEN ReportKeys(m)
                                  ELSE IF Truthy(m.message) THEN {k} ELSE {}
                             ELSE {k}
                         : i \in 1..Len(e.errors[k]) }
                 : k \in DOMAIN e.errors }

\* The nested errors of err: <<k, i>> where err.errors[k][i] is an Invalid.
NestedAt == {ki \in UNION {{<<k, i>> : i \in 1..Len(err.errors[k])} : k \in DOMAIN err.errors} :
                err.errors[ki[1]][ki[2]].cls = "Invalid"}

\* C10: unpacking an error whose field 'x' holds a nested error with field
\* errors {'y': 'deep'} puts 'y': 'deep' at the top level of the result and
\* makes no entry under 'x' for the nested error; a nested error that has
\* only a top message is appended, as that message, under 'x'.
C10_NestedFlattened ==
    (epc = "unpacked" /\ unpacked.isdict) =>
        /\ DOMAIN unpacked.d \subseteq ReportKeys(err)
        /\ \A ki \in NestedAt :
               LET k == ki[1]
                   e == err.errors[k][ki[2]]
               IN  /\ (DOMAIN e.errors # {} /\ IsLeaf(e)) =>
                          \A k2 \in DOMAIN e.errors :
                              e.errors[k2] # <<>> =>
                                  /\ k2 \in DOMAIN unpacked.d
                                  /\ how.list_of_errors =>
                                         e.errors[k2][1].message \in Elements(unpacked.d[k2])
                                  /\ (~how.list_of_errors /\ DOMAIN err.errors = {k}
                                          /\ Len(err.errors[k]) = 1) =>
                                         unpacked.d[k2] = e.errors[k2][1].message
                   /\ (DOMAIN e.errors = {} /\ Truthy(e.message)) =>
                          /\ k \in DOMAIN unpacked.d
                          /\ how.list_of_errors => e.message \in Elements(unpacked.d[k])
                          /\ (~how.list_of_errors /\ Len(err.errors[k]) = 1) =>
                                 unpacked.d[k] = e.message

\* C10's case: Invalid({'x': Invalid({'y': 'deep'})}) unpacked gives
\* {'y': 'deep'}.
C10_Witness ==
    /\ epc = "unpacked"
    /\ err = Invalid(<<DictArg(DictSet(EmptyDict, Name("x"),
                 One(Invalid(<<DictArg(DictSet(EmptyDict, Name("y"),
                                               One(Message("deep"))))>>, EmptyDict))))>>,
                     EmptyDict)
    /\ ~how.list_of_errors
    /\ unpacked = Mapping(DictSet(EmptyDict, Name("y"), "deep"))

\* C10's other case: Invalid({'x': Invalid('top')}) unpacked gives
\* {'x': 'top'}.
C10_WitnessMessage ==
    /\ epc = "unpacked"
    /\ err = Invalid(<<DictArg(DictSet(EmptyDict, Name("x"),
                 One(Invalid(<<MsgArg("top")>>, EmptyDict))))>>, EmptyDict)
    /\ ~how.list_of_errors
    /\ unpacked = Mapping(DictSet(EmptyDict, Name("x"), "top"))

\* A sequence that holds no element twice.
NoRepeats(l) == \A i \in 1..Len(l) : \A j \in 1..Len(l) : i # j => l[i] # l[j]

\* C11 as stated: every key of the error's field errors maps to a non-empty
\* sequence, and no key's sequence holds the same message twice.
C11_AsStated ==
    \A k \in DOMAIN err.errors : err.errors[k] # <<>> /\ NoRepeats(err.errors[k])

\* C11: add_error_message(key, message) leaves every other key as it was,
\* leaves key with a non-empty sequence, appends the message only if the
\* sequence does not hold it yet, and so keeps a sequence without repeats
\* free of them.
C11_AddKeepsSets ==
    [][adds' = adds + 1 =>
          \E k \in ErrorKeys :
              LET l  == DictGet(err.errors, k, <<>>)
                  l2 == err'.errors[k]
                  m  == Message("bad")
              IN  /\ DOMAIN err'.errors = DOMAIN err.errors \cup {k}
                  /\ \A k2 \in DOMAIN err.errors \ {k} : err'.errors[k2] = err.errors[k2]
                  /\ err'.message = err.message
                  /\ l2 # <<>>
                  /\ l2 = (IF m \in Elements(l) THEN l ELSE Append(l, m))
                  /\ NoRepeats(l) => NoRepeats(l2)]_vars

\* C11's case: Invalid({'x': ['bad', 'deep']}) after add_error_message
\* with 'bad', which 'x' already holds ('y' would have become a key).
C11_Witness ==
    /\ adds = 1 /\ depth = 0
    /\ err.errors = DictSet(EmptyDict, Name("x"), <<Message("bad"), Message("deep")>>)

\* What the same call of unpack_errors gives in the other mode.
OtherMode == unpack_errors(err, how.force_dict, ~how.list_of_errors, how.ord).d

\* The result as lists, and the result as single messages.
AsLists == IF how.list_of_errors THEN unpacked.d ELSE OtherMode

AsSingles == IF how.list_of_errors THEN OtherMode ELSE unpacked.d

\* C12: unpack_errors(list_of_errors=False) has exactly the keys of
\* unpack_errors(list_of_errors=True) and maps each to the first message of
\* that key's list; no list of the result is empty, and a key that has
\* nothing to report (its list of entries is empty) is in neither result.
C12_ModesAgree ==
    (epc = "unpacked" /\ unpacked.isdict) =>
        LET lists   == AsLists
            singles == AsSingles
            keys    == ReportKeys(err)
        IN  /\ DOMAIN singles = DOMAIN lists
            /\ \A k \in DOMAIN lists :
                   lists[k] # <<>> /\ singles[k] = lists[k][1]
            /\ DOMAIN lists = keys
            /\ \A k \in DOMAIN err.errors :
                   (err.errors[k] = <<>> /\ k \notin keys) =>
                       k \notin DOMAIN lists /\ k \notin DOMAIN singles

\* C12's case: Invalid('top', x='bad') holds what Invalid('top', {'x': 'bad'})
\* holds, and unpacked as lists gives {None: ['top'], 'x': ['bad']}, whose
\* other mode is {None: 'top', 'x': 'bad'}.
C12_Witness ==
    /\ epc = "unpacked"
    /\ err.message = "top"
    /\ err.errors = DictSet(EmptyDict, Name("x"), <<Message("bad")>>)
    /\ how.list_of_errors
    /\ unpacked = Mapping(DictSet(DictSet(EmptyDict, NoneKey, <<"top">>), Name("x"), <<"bad">>))
    /\ OtherMode = DictSet(DictSet(EmptyDict, NoneKey, "top"), Name("x"), "bad")

\* C12's edge case: Invalid({'x': []}, {'y': 'deep'}) unpacked as lists
\* gives {'y': ['deep']}, without 'x'.
C12_WitnessEmpty ==
    /\ epc = "unpacked"
    /\ Name("x") \in DOMAIN err.errors /\ err.errors[Name("x")] = <<>>
    /\ how.list_of_errors
    /\ unpacked = Mapping(DictSet(EmptyDict, Name("y"), <<"deep">>))

====
